---- MODULE Spec2Model ----
(***************************************************************************)
(* ci_mapping/data/query_mag.py: the expression builders build_expr and    *)
(* build_composite_expr, the retried remote call query_mag_api and the     *)
(* paginated harvester query_fields_of_study; and, of                      *)
(* ci_mapping/data/parse_mag_data.py, parse_fos and parse_affiliations.    *)
(*                                                                         *)
(* A Python string is a sequence of one-character strings, so that len()   *)
(* is Len and an emitted expression can be read back character by          *)
(* character.  A query item is a record [kind, val]: kind "int" with a     *)
(* natural number, or kind "str" with a sequence of characters.            *)
(***************************************************************************)
EXTENDS Naturals, Sequences, FiniteSets

VARIABLES
    query_items,   \* build_expr: the items to pack
    entity_name,   \* build_expr: the attribute code
    max_length,    \* build_expr: the length budget
    expr,          \* build_expr: the current batch of formatted items
    item_idx,      \* build_expr: number of items the for loop has consumed
    emitted,       \* build_expr: the expressions yielded so far, in order
    bpc,           \* build_expr: "idle" (not called) | "loop" | "done"
    ids,           \* query_fields_of_study: None or a list of ints
    levels,        \* query_fields_of_study: None or a list of ints
    query_count,   \* query_fields_of_study: the page size the caller asks for
    results_limit, \* query_fields_of_study: None or an int
    pc,            \* where the harvester generator stands
    error,         \* the exception that ended the generator, "" when none
    count,         \* query_fields_of_study: local count
    offset,        \* query_fields_of_study: local offset
    attempt_number,\* retrying: attempts made by the query_mag_api call under way
                   \* or just ended
    last_cause,    \* what the last failed attempt of that call raised
    fos_data,      \* number of entities of the page being consumed
    row_idx,       \* number of its entities the for loop has consumed
    row,           \* the record handed to the caller by the last yield
    obs,           \* what the current expression has seen: calls, pages, ...
    brk,           \* which break left the while loop: "" | "empty" | "limit"
    raw,           \* the clean-up on its own: None or the raw entity handed to it
    response,      \* parse_*: None or the paper the service answered
    paper_id,      \* parse_*: the paper's id
    parsed,        \* parse_*: None or the pair of lists returned
    ppc            \* parse_*: "idle" | "ready" | the function that ended | "raised"

buildVars == <<query_items, entity_name, max_length, expr, item_idx, emitted, bpc>>

configVars == <<ids, levels, query_count, results_limit>>

harvestVars == <<pc, error, count, offset, attempt_number, last_cause,
                 fos_data, row_idx, row, obs, brk>>

parseVars == <<response, paper_id, parsed, ppc>>

vars == <<buildVars, configVars, harvestVars, raw, parseVars>>

(***************************************************************************)
(* Bounds of the model.                                                    *)
(***************************************************************************)
MaxItems == 3        \* longest item list handed to build_expr
MinBudget == 8       \* smallest max_length tried
BudgetSpan == 22     \* max_length ranges over MinBudget .. MinBudget + BudgetSpan
MaxIds == 2          \* longest ids / levels list handed to the harvester
MaxPage == 2         \* most entities the service puts in one page
MaxPages == 2        \* most non-empty pages the service answers for one expression
MaxLimit == 3        \* largest results_limit tried
\* The budget build_expr runs with inside the harvester.  The code leaves it at
\* its default of 16000 characters, which id lists of a thousand items exceed;
\* the model scales the lists and the budget down together.
HarvestBudget == 21

(***************************************************************************)
(* Strings.                                                                *)
(***************************************************************************)
Digit(d) ==
    CASE d = 0 -> "0" [] d = 1 -> "1" [] d = 2 -> "2" [] d = 3 -> "3"
      [] d = 4 -> "4" [] d = 5 -> "5" [] d = 6 -> "6" [] d = 7 -> "7"
      [] d = 8 -> "8" [] d = 9 -> "9"

\* str(n) of a non-negative int, as the f-string renders it
RECURSIVE IntToStr(_)
IntToStr(n) ==
    IF n < 10 THEN <<Digit(n)>> ELSE IntToStr(n \div 10) \o <<Digit(n % 10)>>

\* sep.join(parts)
RECURSIVE Join(_, _)
Join(sep, parts) ==
    IF parts = <<>> THEN <<>>
    ELSE IF Len(parts) = 1 THEN parts[1]
    ELSE parts[1] \o sep \o Join(sep, Tail(parts))

\* the literal "expr=OR({})"
query_prefix_format == <<"e", "x", "p", "r", "=", "O", "R", "(", "{", "}", ")">>

\* position of the replacement field "{}" in fmt
RECURSIVE FieldPos(_, _)
FieldPos(fmt, i) ==
    IF fmt[i] = "{" /\ fmt[i + 1] = "}" THEN i ELSE FieldPos(fmt, i + 1)

\* fmt.format(s): the replacement field replaced by s
StrFormat(fmt, s) ==
    LET p == FieldPos(fmt, 1)
    IN SubSeq(fmt, 1, p - 1) \o s \o SubSeq(fmt, p + 2, Len(fmt))

(***************************************************************************)
(* build_expr.                                                             *)
(***************************************************************************)
\* f"{entity_name}='{item}'" for a str, f"{entity_name}={item}" for an int
FormatItem(name, item) ==
    IF item.kind = "str"
    THEN name \o <<"=", "'">> \o item.val \o <<"'">>
    ELSE name \o <<"=">> \o IntToStr(item.val)

\* sum(len(e) + 1 for e in expr)
RECURSIVE SumLenPlusOne(_)
SumLenPlusOne(batch) ==
    IF batch = <<>> THEN 0 ELSE Len(batch[1]) + 1 + SumLenPlusOne(Tail(batch))

\* ExprLength with a fault: the items already in the batch are not counted
ExprLengthItemOnly(batch, formatted_item) ==
    Len(formatted_item) + Len(query_prefix_format)

\* length = sum(len(e) + 1 for e in expr) + len(formatted_item) + len(query_prefix_format)
ExprLength(batch, formatted_item) ==
    SumLenPlusOne(batch) + Len(formatted_item) + Len(query_prefix_format)

\* if length >= max_length
ShouldFlush(length, maxlen) == length >= maxlen

\* query_prefix_format.format(",".join(expr))
Render(batch) == StrFormat(query_prefix_format, Join(<<",">>, batch))

\* AfterFlush with a fault: expr.clear() is forgotten
AfterFlushNoClear(batch) == batch

\* expr.clear()
AfterFlush(batch) == <<>>

\* One iteration of "for item in query_items" on the batch so far:
\* the batch after it and what it yields (at most one expression).
BuildIteration(batch, name, item, maxlen) ==
    LET formatted_item == FormatItem(name, item)
        length == ExprLength(batch, formatted_item)
        flush == ShouldFlush(length, maxlen)
    IN [expr |-> Append(IF flush THEN AfterFlush(batch) ELSE batch, formatted_item),
        yields |-> IF flush THEN <<Render(batch)>> ELSE <<>>]

\* "if len(expr) > 0: yield ..." after the loop
BuildRemainder(batch) == IF Len(batch) > 0 THEN <<Render(batch)>> ELSE <<>>

\* The inputs of build_expr: lists of one kind, every attribute code used in
\* the repository's queries, every budget of the range.
IntItems == {[kind |-> "int", val |-> 7], [kind |-> "int", val |-> 42]}
StrItems == {[kind |-> "str", val |-> <<"a">>], [kind |-> "str", val |-> <<"b", "c">>]}
ListsOver(S) == UNION {[1..n -> S] : n \in 0..MaxItems}
EntityNames == {<<"I", "d">>, <<"F", "L">>, <<"T", "i">>}
Budgets == MinBudget..(MinBudget + BudgetSpan)

\* Python's None, and a value that is not None
None == <<>>
Some(x) == <<x>>
ValueOf(o) == o[1]

\* per expression: calls, pages, served, yielded, empty; over the whole harvest:
\* total, the records yielded since the first pull
NoObs ==
    [calls |-> 0, pages |-> 0, served |-> 0, yielded |-> 0, empty |-> FALSE, total |-> 0]

\* the parse functions and the clean-up on its own, not called
ParseIdle ==
    /\ raw = None
    /\ response = None /\ paper_id = 0 /\ parsed = None /\ ppc = "idle"

\* the harvester before it is called: what the build_expr runs leave untouched
HarvestIdle ==
    /\ ids = None /\ levels = None /\ query_count = 0 /\ results_limit = None
    /\ pc = "idle" /\ error = "" /\ count = 0 /\ offset = 0
    /\ attempt_number = 0 /\ last_cause = "" /\ fos_data = 0 /\ row_idx = 0
    /\ row = <<>> /\ obs = NoObs /\ brk = ""

InitBuild ==
    /\ \/ query_items \in ListsOver(IntItems)
       \/ query_items \in ListsOver(StrItems)
    /\ entity_name \in EntityNames
    /\ max_length \in Budgets
    /\ expr = <<>>
    /\ item_idx = 0
    /\ emitted = <<>>
    /\ bpc = "loop"
    /\ HarvestIdle
    /\ ParseIdle

\* the body of the for loop, for the next item
BuildLoop ==
    /\ bpc = "loop"
    /\ item_idx < Len(query_items)
    /\ LET r == BuildIteration(expr, entity_name, query_items[item_idx + 1], max_length)
       IN /\ expr' = r.expr
          /\ emitted' = emitted \o r.yields
    /\ item_idx' = item_idx + 1
    /\ UNCHANGED <<query_items, entity_name, max_length, bpc>>
    /\ UNCHANGED <<configVars, raw, parseVars, harvestVars>>

\* the end of the loop: the remainder is picked up and the generator ends
BuildEnd ==
    /\ bpc = "loop"
    /\ item_idx = Len(query_items)
    /\ emitted' = emitted \o BuildRemainder(expr)
    /\ bpc' = "done"
    /\ UNCHANGED <<query_items, entity_name, max_length, expr, item_idx>>
    /\ UNCHANGED <<configVars, raw, parseVars, harvestVars>>

NextBuild == BuildLoop \/ BuildEnd

SpecBuild == InitBuild /\ [][NextBuild]_vars

(***************************************************************************)
(* build_composite_expr: one call, one returned expression.                *)
(***************************************************************************)
\* what an f-string puts for {query_value}
ItemText(item) == IF item.kind = "str" THEN item.val ELSE IntToStr(item.val)

\* f"And(Composite({entity_name}='{query_value}'), D=['{date[0]}', '{date[1]}'])"
AndQuery(name, item, date) ==
    <<"A", "n", "d", "(", "C", "o", "m", "p", "o", "s", "i", "t", "e", "(">>
        \o name \o <<"=", "'">> \o ItemText(item) \o <<"'", ")", ",", " ", "D", "=", "[", "'">>
        \o date[1] \o <<"'", ",", " ", "'">> \o date[2] \o <<"'", "]", ")">>

\* build_composite_expr with a fault: the clauses are joined by "," alone
BuildCompositeExprCommaOnly(query_values, name, date) ==
    StrFormat(query_prefix_format,
              Join(<<",">>,
                   [k \in 1..Len(query_values) |-> AndQuery(name, query_values[k], date)]))

\* query_prefix_format.format(", ".join(and_queries))
BuildCompositeExpr(query_values, name, date) ==
    StrFormat(query_prefix_format,
              Join(<<",", " ">>,
                   [k \in 1..Len(query_values) |-> AndQuery(name, query_values[k], date)]))

\* the time periods tried
Dates == { << <<"1">>, <<"2">> >>, << <<"1", "9">>, <<"2", "0">> >> }

\* The call: the inputs are those of InitBuild, the returned expression is the
\* only one emitted.
CompositeCall ==
    /\ bpc = "loop"
    /\ \E date \in Dates :
           emitted' = <<BuildCompositeExpr(query_items, entity_name, date)>>
    /\ bpc' = "done"
    /\ UNCHANGED <<query_items, entity_name, max_length, expr, item_idx>>
    /\ UNCHANGED <<configVars, raw, parseVars, harvestVars>>

NextComposite == CompositeCall

SpecComposite == InitBuild /\ [][NextComposite]_vars

(***************************************************************************)
(* query_mag_api under @retry(stop_max_attempt_number=10).  One attempt    *)
(* posts the query; requests.post, raise_for_status and r.json() may each  *)
(* raise.  retrying rejects every attempt that raised, accepts every       *)
(* result, sleeps nothing, stops after the tenth attempt and then          *)
(* re-raises what that attempt raised (wrap_exception is off).             *)
(***************************************************************************)
stop_max_attempt_number == 10

Causes == {"ConnectionError", "HTTPError", "ValueError"}

\* StopAfterAttempt with a fault: one attempt more is allowed
StopAfterAttemptLate(previous_attempt_number) ==
    previous_attempt_number > stop_max_attempt_number

\* retrying's stop_after_attempt
StopAfterAttempt(previous_attempt_number) ==
    previous_attempt_number >= stop_max_attempt_number

\* Retrying with a fault: it gives up with an empty page instead of raising
RetryingSkip(k, outcome) ==
    IF outcome.ok THEN [kind |-> "return", value |-> outcome.entities]
    ELSE IF StopAfterAttempt(k) THEN [kind |-> "return", value |-> 0]
    ELSE [kind |-> "retry"]

\* Retrying with a fault: a failed attempt is answered with an empty page
RetryingSwallow(k, outcome) ==
    IF outcome.ok THEN [kind |-> "return", value |-> outcome.entities]
    ELSE [kind |-> "return", value |-> 0]

\* What the outcome of attempt number k makes of the call: it returns the
\* response, retries, or raises.
Retrying(k, outcome) ==
    IF outcome.ok THEN [kind |-> "return", value |-> outcome.entities]
    ELSE IF StopAfterAttempt(k) THEN [kind |-> "raise", exc |-> outcome.cause]
    ELSE [kind |-> "retry"]

\* the arguments of the query_mag_api call of the while loop
Request == [expr |-> emitted[Len(emitted)], count |-> count, offset |-> offset]

(***************************************************************************)
(* The clean-up of one raw entity.  A dict is a function on its keys.      *)
(***************************************************************************)
field_mapping ==
    << <<"Id", "id">>, <<"DFN", "name">>, <<"FL", "level">>,
       <<"FP", "parent_ids">>, <<"FC", "child_ids">> >>
fields_to_drop == <<"logprob", "prob">>
fields_to_compact == <<"parent_ids", "child_ids">>

DictDel(d, k) == [x \in DOMAIN d \ {k} |-> d[x]]
DictSet(d, k, v) == [x \in DOMAIN d \cup {k} |-> IF x = k THEN v ELSE d[x]]

\* for f in fields_to_drop: del row[f]      (a missing key raises KeyError)
RECURSIVE DropFields(_, _)
DropFields(d, fs) ==
    IF fs = <<>> THEN [raised |-> FALSE, row |-> d]
    ELSE IF Head(fs) \notin DOMAIN d THEN [raised |-> TRUE, row |-> d]
    ELSE DropFields(DictDel(d, Head(fs)), Tail(fs))

\* for code, description in field_mapping.items(): row[description] = row.pop(code)
\* (a missing code is passed over)
RECURSIVE RenameFields(_, _)
RenameFields(d, ms) ==
    IF ms = <<>> THEN d
    ELSE LET code == Head(ms)[1]
             description == Head(ms)[2]
         IN IF code \in DOMAIN d
            THEN RenameFields(DictSet(DictDel(d, code), description, d[code]), Tail(ms))
            ELSE RenameFields(d, Tail(ms))

\* CompactFields with a fault: the identifiers come out in reverse order
RECURSIVE CompactFieldsReversed(_, _)
CompactFieldsReversed(d, fs) ==
    IF fs = <<>> THEN d
    ELSE IF Head(fs) \in DOMAIN d
         THEN CompactFieldsReversed(
                  DictSet(d, Head(fs),
                          [i \in 1..Len(d[Head(fs)]) |->
                              d[Head(fs)][Len(d[Head(fs)]) + 1 - i].FId]),
                  Tail(fs))
         ELSE CompactFieldsReversed(d, Tail(fs))

\* for field in fields_to_compact: row[field] = [ids["FId"] for ids in row[field]]
\* (a missing field is passed over)
RECURSIVE CompactFields(_, _)
CompactFields(d, fs) ==
    IF fs = <<>> THEN d
    ELSE IF Head(fs) \in DOMAIN d
         THEN CompactFields(
                  DictSet(d, Head(fs),
                          [i \in 1..Len(d[Head(fs)]) |-> d[Head(fs)][i].FId]),
                  Tail(fs))
         ELSE CompactFields(d, Tail(fs))

\* the body of "for row in fos_data['entities']" up to the yield
Transform(entity) ==
    LET dropped == DropFields(entity, fields_to_drop)
    IN IF dropped.raised THEN dropped
       ELSE [raised |-> FALSE,
             row |-> CompactFields(RenameFields(dropped.row, field_mapping),
                                   fields_to_compact)]

\* The raw entities the service may answer: any subset of the keys.
RawKeys == {"logprob", "prob", "Id", "DFN", "FL", "FP", "FC"}
RawValue(k) ==
    CASE k = "logprob" -> "-17.5"
      [] k = "prob" -> "0.1"
      [] k = "Id" -> 7
      [] k = "DFN" -> "Biology"
      [] k = "FL" -> 1
      [] k = "FP" -> << [FId |-> 7], [FId |-> 9] >>
      [] k = "FC" -> << [FId |-> 3] >>
RawEntity(S) == [k \in S |-> RawValue(k)]

\* The entities a page of the harvest holds: complete, short of one key, or
\* with neither parents nor children.
EntityShapes ==
    {RawKeys} \cup {RawKeys \ {k} : k \in RawKeys} \cup {RawKeys \ {"FP", "FC"}}

(***************************************************************************)
(* query_fields_of_study, a generator.  Its positions:                     *)
(*   "created"  called, not yet pulled: no line of the body has run        *)
(*   "next"     at "for expr in build_expr(...)"                    *)
(*   "call"     inside query_mag_api                                       *)
(*   "rows"     at "for row in fos_data['entities']"                       *)
(*   "yielded"  suspended at "yield row"                                   *)
(*   "done"     ended;  "raised"  ended by an exception                    *)
(***************************************************************************)
\* ExprArgs with a fault: ids are taken whenever they are given
ExprArgsIdsFirst(i, l) ==
    IF i # None THEN Some([items |-> ValueOf(i), name |-> <<"I", "d">>])
    ELSE IF l # None THEN Some([items |-> ValueOf(l), name |-> <<"F", "L">>])
    ELSE None

\* if ids is not None and levels is None ... elif ... else: raise TypeError
ExprArgs(i, l) ==
    IF i # None /\ l = None THEN Some([items |-> ValueOf(i), name |-> <<"I", "d">>])
    ELSE IF l # None /\ i = None THEN Some([items |-> ValueOf(l), name |-> <<"F", "L">>])
    ELSE None

\* build_expr resumed until it yields or ends
RECURSIVE NextYield(_, _)
NextYield(batch, idx) ==
    IF idx < Len(query_items)
    THEN LET r == BuildIteration(batch, entity_name, query_items[idx + 1], max_length)
         IN IF r.yields # <<>>
            THEN [expr |-> r.expr, idx |-> idx + 1, yields |-> r.yields, ended |-> FALSE]
            ELSE NextYield(r.expr, idx + 1)
    ELSE [expr |-> batch, idx |-> idx, yields |-> BuildRemainder(batch), ended |-> TRUE]

\* LimitReached with a fault: the limit is never looked at
LimitReachedNever(limit, off) == FALSE

\* LimitReached with a fault: the offset has to pass the limit
LimitReachedStrict(limit, off) == limit # None /\ off > ValueOf(limit)

\* if results_limit is not None and offset >= results_limit
LimitReached(limit, off) == limit # None /\ off >= ValueOf(limit)

\* NextRow with a fault: every other entity is passed over
NextRowSkip(idx) == idx + 2

\* for row in fos_data["entities"]: on to the next entity of the page
NextRow(idx) == idx + 1

\* NextOffset with a fault: the cursor moves by one per page
NextOffsetByOne(off, entities) == off + 1

\* offset += len(fos_data["entities"])
NextOffset(off, entities) == off + entities

\* IsEmpty with a fault: an empty page is never seen
IsEmptyNever(entities) == FALSE

\* if fos_data["entities"] == []
IsEmpty(entities) == entities = 0

IdValues == {7, 42}
LevelValues == {0}
QueryCounts == {1, 1000}
OptLists(S) == {None} \cup {Some(l) : l \in UNION {[1..n -> S] : n \in 0..MaxIds}}

Init ==
    /\ ids \in OptLists(IdValues)
    /\ levels \in OptLists(LevelValues)
    /\ query_count \in QueryCounts
    /\ results_limit \in {None} \cup {Some(n) : n \in 0..MaxLimit}
    /\ pc = "created" /\ error = "" /\ count = 0 /\ offset = 0
    /\ attempt_number = 0 /\ last_cause = "" /\ fos_data = 0 /\ row_idx = 0
    /\ row = <<>> /\ obs = NoObs /\ brk = ""
    /\ query_items = <<>> /\ entity_name = <<>> /\ max_length = HarvestBudget
    /\ expr = <<>> /\ item_idx = 0 /\ emitted = <<>> /\ bpc = "idle"
    /\ ParseIdle

\* The caller's first pull: the argument check, then build_expr(...),
\* which creates the generator without running it.
Start ==
    /\ pc = "created"
    /\ LET a == ExprArgs(ids, levels)
       IN IF a = None
          THEN /\ pc' = "raised"
               /\ error' = "TypeError"
               /\ UNCHANGED buildVars
          ELSE /\ pc' = "next"
               /\ error' = ""
               /\ query_items' = [k \in 1..Len(ValueOf(a).items) |->
                                     [kind |-> "int", val |-> ValueOf(a).items[k]]]
               /\ entity_name' = ValueOf(a).name
               /\ bpc' = "loop"
               /\ UNCHANGED <<max_length, expr, item_idx, emitted>>
    /\ UNCHANGED <<configVars, raw, parseVars, count, offset, attempt_number, last_cause,
                   fos_data, row_idx, row, obs, brk>>

\* "for expr in build_expr(...)": the next expression, or the end of the harvest.
\* With an expression: count = 1000, offset = 0 and the first query_mag_api call.
NextExpr ==
    /\ pc = "next"
    /\ LET g == NextYield(expr, item_idx)
       IN IF bpc = "done" \/ g.yields = <<>>
          THEN /\ pc' = "done"
               /\ bpc' = "done"
               /\ UNCHANGED <<expr, item_idx, emitted, count, offset,
                              attempt_number, last_cause, obs, brk>>
          ELSE /\ expr' = g.expr
               /\ item_idx' = g.idx
               /\ emitted' = emitted \o g.yields
               /\ bpc' = IF g.ended THEN "done" ELSE "loop"
               /\ count' = 1000
               /\ offset' = 0
               /\ pc' = "call"
               /\ attempt_number' = 0
               /\ last_cause' = ""
               /\ obs' = [NoObs EXCEPT !.calls = 1, !.total = obs.total]
               /\ brk' = ""
    /\ UNCHANGED <<query_items, entity_name, max_length, configVars, raw, parseVars,
                   error, fos_data, row_idx, row>>

\* what an attempt may come to: one of the three raises, or a page
Outcomes ==
    {[ok |-> FALSE, cause |-> c, entities |-> 0] : c \in Causes}
        \cup {[ok |-> TRUE, cause |-> "", entities |-> n] : n \in 0..MaxPage}

\* One attempt of the call under way.
Attempt ==
    /\ pc = "call"
    /\ \E outcome \in Outcomes :
        /\ (outcome.ok /\ outcome.entities > 0) =>
               /\ obs.pages < MaxPages \/ results_limit # None
               /\ outcome.entities <= Request.count
        /\ LET k == attempt_number + 1
               r == Retrying(k, outcome)
           IN /\ attempt_number' = k
              /\ last_cause' = outcome.cause
              /\ CASE r.kind = "retry" ->
                        UNCHANGED <<pc, error, fos_data, row_idx, obs, brk>>
                   [] r.kind = "raise" ->
                        /\ pc' = "raised"
                        /\ error' = r.exc
                        /\ UNCHANGED <<fos_data, row_idx, obs, brk>>
                   [] r.kind = "return" ->
                        /\ fos_data' = r.value
                        /\ row_idx' = 0
                        /\ error' = error
                        /\ IF IsEmpty(r.value)
                           THEN /\ pc' = "next"
                                /\ brk' = "empty"
                           ELSE /\ pc' = "rows"
                                /\ brk' = brk
                        /\ obs' = IF outcome.entities = 0
                                  THEN [obs EXCEPT !.empty = TRUE]
                                  ELSE [obs EXCEPT !.pages = @ + 1,
                                                   !.served = @ + outcome.entities]
    /\ UNCHANGED <<buildVars, configVars, raw, parseVars, count, offset, row>>

\* The next entity of the page is cleaned up and yielded.  The call that
\* fetched the page is over: its attempt count is gone.
YieldRow ==
    /\ pc = "rows"
    /\ row_idx < fos_data
    /\ \E S \in EntityShapes :
        LET t == Transform(RawEntity(S))
        IN IF t.raised
           THEN /\ pc' = "raised"
                /\ error' = "KeyError"
                /\ UNCHANGED <<row, row_idx, obs>>
           ELSE /\ pc' = "yielded"
                /\ error' = error
                /\ row' = t.row
                /\ row_idx' = NextRow(row_idx)
                /\ obs' = [obs EXCEPT !.yielded = @ + 1, !.total = @ + 1]
    /\ attempt_number' = 0
    /\ UNCHANGED <<buildVars, configVars, raw, parseVars, count, offset, last_cause, fos_data, brk>>

\* The caller pulls again: the generator resumes after "yield row".
Pull ==
    /\ pc = "yielded"
    /\ pc' = "rows"
    /\ row' = <<>>
    /\ UNCHANGED <<buildVars, configVars, raw, parseVars, error, count, offset, attempt_number,
                   last_cause, fos_data, row_idx, obs, brk>>

\* The page is used up: the offset advances, then the limit check, then either
\* the break or the next query_mag_api call.
PageEnd ==
    /\ pc = "rows"
    /\ row_idx = fos_data
    /\ offset' = NextOffset(offset, fos_data)
    /\ IF LimitReached(results_limit, offset')
       THEN /\ pc' = "next"
            /\ brk' = "limit"
            /\ UNCHANGED <<attempt_number, last_cause, obs>>
       ELSE /\ pc' = "call"
            /\ brk' = brk
            /\ attempt_number' = 0
            /\ last_cause' = ""
            /\ obs' = [obs EXCEPT !.calls = @ + 1]
    /\ UNCHANGED <<buildVars, configVars, raw, parseVars, error, count, fos_data, row_idx, row>>

Next == Start \/ NextExpr \/ Attempt \/ YieldRow \/ Pull \/ PageEnd

Spec == Init /\ [][Next]_vars

\* A YieldRow step seen from outside: the row loop has an entity left and the
\* generator comes to its yield or to an exception.
YieldStep == pc = "rows" /\ row_idx < fos_data /\ pc' \in {"yielded", "raised"}

\* The caller keeps pulling, every attempt comes to an outcome and the
\* generator's own steps are taken, in a harvest called with the default
\* page size.  YieldRow's fairness is stated on
\* YieldStep, which is enabled exactly when YieldRow is and holds of exactly
\* its steps.
\* query_count is left at its default: the code never reads it (line 143).
InitLive == Init /\ query_count = 1000

SpecLive ==
    /\ InitLive /\ [][Next]_vars
    /\ WF_vars(Start \/ NextExpr \/ Attempt \/ Pull \/ PageEnd)
    /\ WF_pc(YieldStep)

(***************************************************************************)
(* The clean-up of lines 158-176 on its own, on every raw entity: any      *)
(* subset of the keys, each key with either of two values.                 *)
(***************************************************************************)
RawVariant(k, v) ==
    IF v = 1 THEN RawValue(k)
    ELSE CASE k = "logprob" -> "-3.2"
           [] k = "prob" -> "0.9"
           [] k = "Id" -> 42
           [] k = "DFN" -> "Art"
           [] k = "FL" -> 0
           [] k = "FP" -> << >>
           [] k = "FC" -> << [FId |-> 9], [FId |-> 7], [FId |-> 3] >>

\* the build_expr variables while build_expr is not running
BuildIdle ==
    /\ query_items = <<>> /\ entity_name = <<>> /\ max_length = HarvestBudget
    /\ expr = <<>> /\ item_idx = 0 /\ emitted = <<>> /\ bpc = "idle"

InitTransform ==
    /\ \E S \in SUBSET RawKeys, c \in [RawKeys -> {1, 2}] :
           raw = Some([k \in S |-> RawVariant(k, c[k])])
    /\ pc = "rows"
    /\ ids = None /\ levels = None /\ query_count = 0 /\ results_limit = None
    /\ error = "" /\ count = 0 /\ offset = 0
    /\ attempt_number = 0 /\ last_cause = "" /\ fos_data = 1 /\ row_idx = 0
    /\ row = <<>> /\ obs = NoObs /\ brk = ""
    /\ BuildIdle
    /\ response = None /\ paper_id = 0 /\ parsed = None /\ ppc = "idle"

\* the entity is cleaned up and yielded, or its clean-up raises
CleanUp ==
    /\ pc = "rows"
    /\ raw # None
    /\ LET t == Transform(ValueOf(raw))
       IN IF t.raised
          THEN /\ pc' = "raised"
               /\ error' = "KeyError"
               /\ row' = row
          ELSE /\ pc' = "yielded"
               /\ error' = error
               /\ row' = t.row
    /\ UNCHANGED <<buildVars, configVars, raw, parseVars, count, offset, attempt_number,
                   last_cause, fos_data, row_idx, obs, brk>>

NextTransform == CleanUp

SpecTransform == InitTransform /\ [][NextTransform]_vars

(***************************************************************************)
(* parse_mag_data.py: parse_fos and parse_affiliations.  A Python value    *)
(* that may be None is Some(value) or None.                                *)
(***************************************************************************)
MaxEntries == 2      \* longest F list and longest AA list of a response

\* "return paper_with_fos, fields_of_study"
parse_fos(resp, pid) ==
    LET F == resp.F
        paper_with_fos == [k \in 1..Len(F) |->
                              [field_of_study_id |-> F[k].FId, paper_id |-> pid]]
        fields_of_study == [k \in 1..Len(F) |->
                               [id |-> F[k].FId, name |-> F[k].DFN, norm_name |-> F[k].FN]]
    IN <<paper_with_fos, fields_of_study>>

\* Python's truth value of an AfId: an int is true unless it is 0
Truthy(v) == v # 0

\* aff["AfId"] raises KeyError for an entry without that key
HasAfId(aff) == "AfId" \in DOMAIN aff

\* the link row of one AA entry whose AfId can be read
AuthorAffRow(aff, pid) ==
    [affiliation_id |-> IF Truthy(aff.AfId) THEN Some(aff.AfId) ELSE None,
     author_id |-> aff.AuId,
     paper_id |-> pid]

\* the affiliation rows: one per entry with a true AfId
AffiliationsOf(AA) ==
    LET with == SelectSeq(AA, LAMBDA aff : Truthy(aff.AfId))
    IN [k \in 1..Len(with) |-> [id |-> with[k].AfId, affiliation |-> with[k].AfN]]

\* "return affiliations, paper_author_aff", or the KeyError of line 167
parse_affiliations(resp, pid) ==
    LET AA == resp.AA
    IN IF \E k \in 1..Len(AA) : ~HasAfId(AA[k])
       THEN [raised |-> TRUE, value |-> None]
       ELSE [raised |-> FALSE,
             value |-> Some(<<AffiliationsOf(AA),
                              [k \in 1..Len(AA) |-> AuthorAffRow(AA[k], pid)]>>)]

\* the entries of a response's F list
FosEntries ==
    {[FId |-> 7, DFN |-> "Biology", FN |-> "biology"],
     [FId |-> 9, DFN |-> "Art", FN |-> "art"]}

\* the entries of a response's AA list: an author with an affiliation, one
\* whose AfId is empty, one without the AfId key
AffEntries ==
    {[AuId |-> 1, AfId |-> 5, AfN |-> "mit"],
     [AuId |-> 2, AfId |-> 0, AfN |-> ""],
     [AuId |-> 3]}

EntryLists(S) == UNION {[1..n -> S] : n \in 0..MaxEntries}

InitParse ==
    /\ \E F \in EntryLists(FosEntries), AA \in EntryLists(AffEntries) :
           response = Some([F |-> F, AA |-> AA])
    /\ paper_id = 11
    /\ parsed = None
    /\ ppc = "ready"
    /\ raw = None
    /\ HarvestIdle
    /\ BuildIdle

ParseFos ==
    /\ ppc = "ready"
    /\ parsed' = Some(parse_fos(ValueOf(response), paper_id))
    /\ ppc' = "parse_fos"
    /\ UNCHANGED <<buildVars, configVars, harvestVars, raw, response, paper_id>>

ParseAffiliations ==
    /\ ppc = "ready"
    /\ LET r == parse_affiliations(ValueOf(response), paper_id)
       IN /\ parsed' = r.value
          /\ ppc' = IF r.raised THEN "raised" ELSE "parse_affiliations"
    /\ UNCHANGED <<buildVars, configVars, harvestVars, raw, response, paper_id>>

NextParse == ParseFos \/ ParseAffiliations

SpecParse == InitParse /\ [][NextParse]_vars

(***************************************************************************)
(* Reading an emitted expression back: the inverse of Render and of        *)
(* FormatItem, used to state what build_expr emitted.                      *)
(***************************************************************************)
\* s.split(sep) for a one-character separator; the empty string holds no part
RECURSIVE SplitOn(_, _, _)
SplitOn(s, sep, cur) ==
    IF s = <<>> THEN <<cur>>
    ELSE IF Head(s) = sep THEN <<cur>> \o SplitOn(Tail(s), sep, <<>>)
    ELSE SplitOn(Tail(s), sep, Append(cur, Head(s)))

\* the text between "expr=OR(" and the closing ")"
BodyOf(e) == SubSeq(e, FieldPos(query_prefix_format, 1), Len(e) - 1)

\* the formatted items of one emitted expression, in order
ItemsOf(e) == IF BodyOf(e) = <<>> THEN <<>> ELSE SplitOn(BodyOf(e), ",", <<>>)

DigitVal(c) ==
    CASE c = "0" -> 0 [] c = "1" -> 1 [] c = "2" -> 2 [] c = "3" -> 3
      [] c = "4" -> 4 [] c = "5" -> 5 [] c = "6" -> 6 [] c = "7" -> 7
      [] c = "8" -> 8 [] c = "9" -> 9

RECURSIVE StrToInt(_)
StrToInt(s) ==
    IF Len(s) = 1 THEN DigitVal(s[1])
    ELSE 10 * StrToInt(SubSeq(s, 1, Len(s) - 1)) + DigitVal(s[Len(s)])

\* the item a formatted item "attr='value'" or "attr=value" stands for
ReadItem(name, f) ==
    LET v == SubSeq(f, Len(name) + 2, Len(f))
    IN IF v # <<>> /\ Head(v) = "'"
       THEN [kind |-> "str", val |-> SubSeq(v, 2, Len(v) - 1)]
       ELSE [kind |-> "int", val |-> StrToInt(v)]

\* the batches of a sequence of emitted expressions
BatchesOf(es) == [k \in 1..Len(es) |-> ItemsOf(es[k])]

RECURSIVE Flatten(_)
Flatten(batches) ==
    IF batches = <<>> THEN <<>> ELSE Head(batches) \o Flatten(Tail(batches))

\* the items read out of the emitted expressions, in emission order
ItemsRead(name, es) ==
    LET fs == Flatten(BatchesOf(es))
    IN [k \in 1..Len(fs) |-> ReadItem(name, fs[k])]

FormattedItems(name, items) == [k \in 1..Len(items) |-> FormatItem(name, items[k])]

(***************************************************************************)
(* C1. build_expr loses and duplicates nothing: once the generator has     *)
(* ended on a non-empty list, the items read out of the emitted            *)
(* expressions in emission order are exactly the input list; and while it  *)
(* runs, the items emitted so far followed by the current batch are the    *)
(* items consumed so far.                                                  *)
(***************************************************************************)
C1_RoundTrip ==
    /\ (bpc = "done" /\ query_items # <<>>) =>
           ItemsRead(entity_name, emitted) = query_items
    /\ bpc = "loop" =>
           Flatten(BatchesOf(emitted)) \o expr
               = FormattedItems(entity_name, SubSeq(query_items, 1, item_idx))

\* three items went out in at least two expressions, one holding two items
C1_Witness ==
    /\ bpc = "done"
    /\ Len(query_items) = 3
    /\ Len(emitted) >= 2
    /\ \E k \in 1..Len(emitted) : Len(ItemsOf(emitted[k])) = 2

RECURSIVE GreedyPack(_, _, _)
GreedyPack(fs, cur, maxlen) ==
    IF fs = <<>> THEN (IF cur = <<>> THEN <<>> ELSE <<cur>>)
    ELSE IF cur = <<>> \/ Len(Render(Append(cur, Head(fs)))) <= maxlen
         THEN GreedyPack(Tail(fs), Append(cur, Head(fs)), maxlen)
         ELSE <<cur>> \o GreedyPack(Tail(fs), <<Head(fs)>>, maxlen)

HasItem(batch) == batch # <<>>

C10_Greedy ==
    bpc = "done" =>
        SelectSeq(BatchesOf(emitted), HasItem)
            = GreedyPack(FormattedItems(entity_name, query_items), <<>>, max_length)

(***************************************************************************)
(* C3. Draining one expression with no result limit: when the empty page   *)
(* arrives after n non-empty pages, the records yielded for the expression *)
(* are as many as the entities of those pages, n + 1 calls were made for   *)
(* it, and no call for it follows: the harvester is at the for loop,       *)
(* taking the next expression or ending.                                   *)
(***************************************************************************)
C3_Drain ==
    results_limit = None =>
        /\ obs.empty =>
               /\ pc \in {"next", "done"}
               /\ brk = "empty"
               /\ obs.yielded = obs.served
               /\ obs.calls = obs.pages + 1
        /\ (pc = "next" /\ brk # "") => obs.empty

\* two non-empty pages, then the empty page
C3_Witness ==
    /\ results_limit = None
    /\ pc = "next"
    /\ obs.empty
    /\ obs.pages = 2
    /\ obs.yielded >= 3

(***************************************************************************)
(* C4. One query_mag_api call makes at most 10 attempts.  A failed attempt *)
(* before the tenth leaves the call under way; a successful attempt ends   *)
(* the call with that response and no error; the tenth failed attempt ends *)
(* it with the error that attempt raised.                                  *)
(***************************************************************************)
C4_Retry ==
    /\ attempt_number <= 10
    /\ pc = "call" => attempt_number < 10
    /\ (attempt_number >= 1 /\ last_cause # "" /\ attempt_number < 10) => pc = "call"
    /\ (attempt_number >= 1 /\ last_cause # "" /\ attempt_number = 10) =>
           (pc = "raised" /\ error = last_cause)
    /\ (attempt_number >= 1 /\ last_cause = "") =>
           (pc # "call" /\ error \notin Causes)
    /\ error \in Causes => (pc = "raised" /\ attempt_number = 10)
    /\ pc \in {"rows", "yielded"} =>
           (fos_data > 0 /\ offset + fos_data = obs.served)

\* nine failed attempts, and the tenth returned a page
C4_Witness ==
    /\ pc = "rows"
    /\ row_idx = 0
    /\ attempt_number = 10
    /\ last_cause = ""

(***************************************************************************)
(* C5. query_fields_of_study requires exactly one of ids and levels: with  *)
(* both or neither, the generator ends with TypeError the first time it is *)
(* pulled, having made no call, run no build_expr and yielded nothing;     *)
(* with exactly one, no TypeError is raised.                               *)
(***************************************************************************)
ExactlyOne == (ids # None) # (levels # None)

C5_Config ==
    /\ ~ExactlyOne =>
           /\ pc \in {"created", "raised"}
           /\ pc = "raised" => error = "TypeError"
           /\ obs = NoObs
           /\ attempt_number = 0
           /\ bpc = "idle"
    /\ ExactlyOne => error # "TypeError"

\* both were supplied and the error was raised
C5_Witness ==
    /\ ids # None
    /\ levels # None
    /\ pc = "raised"
    /\ error = "TypeError"

(***************************************************************************)
(* C6. A terminal remote error aborts the whole harvest: the tenth failed  *)
(* attempt of a call ends the generator with that error, whatever          *)
(* expressions remain, and an ended generator does nothing more.           *)
(***************************************************************************)
C6_Abort ==
    /\ []((attempt_number = 10 /\ last_cause # "") =>
              (pc = "raised" /\ error = last_cause))
    /\ [][pc = "raised" => UNCHANGED vars]_vars

\* the error came after a page had been yielded, with an expression still to come
C6_Witness ==
    /\ pc = "raised"
    /\ error \in Causes
    /\ obs.yielded >= 1
    /\ bpc = "loop"

C8_PageSize == pc = "call" => Request.count = query_count

(***************************************************************************)
(* C9 as claimed: whatever fields a raw entity lacks, the clean-up raises  *)
(* nothing, and every entity of a page that was answered is yielded before *)
(* the harvester goes on.                                                  *)
(***************************************************************************)
C9_Tolerant ==
    /\ error # "KeyError"
    /\ pc \in {"call", "next", "done"} => obs.yielded = obs.served

(***************************************************************************)
(* C19 as claimed: build_expr never emits an expression without items,     *)
(* whatever the first item's length, and an empty input emits no           *)
(* expression at all.                                                      *)
(***************************************************************************)
C19_NoEmptyExpr ==
    /\ \A k \in 1..Len(emitted) : ItemsOf(emitted[k]) # <<>>
    /\ (bpc = "done" /\ query_items = <<>>) => emitted = <<>>

(***************************************************************************)
(* C11 as claimed: build_composite_expr packs as build_expr does: an empty *)
(* input gives no expression, no expression of two or more items is longer *)
(* than the budget, and the items are split in the batches build_expr      *)
(* makes of renderings of that size (batches that hold an item; the        *)
(* item-less one is left to C19).                                          *)
(***************************************************************************)
\* the And(...) clauses of an expression: one per "And(" in it
CountAnd(e) ==
    Cardinality({i \in 1..Len(e) : i + 3 <= Len(e) /\ SubSeq(e, i, i + 3) = <<"A", "n", "d", "(">>})

\* build_expr's loop on items that are already formatted
RECURSIVE PackFormatted(_, _, _)
PackFormatted(fs, batch, maxlen) ==
    IF fs = <<>> THEN (IF Len(batch) > 0 THEN <<batch>> ELSE <<>>)
    ELSE IF ShouldFlush(ExprLength(batch, Head(fs)), maxlen)
         THEN <<batch>> \o PackFormatted(Tail(fs), <<Head(fs)>>, maxlen)
         ELSE PackFormatted(Tail(fs), Append(batch, Head(fs)), maxlen)

BatchSizes(batches) == [k \in 1..Len(batches) |-> Len(batches[k])]

\* the batch sizes build_expr gives for query_items rendered as And(...) clauses;
\* the clause length does not depend on which date of a given length is used
CompositeReference ==
    BatchSizes(SelectSeq(
        PackFormatted([k \in 1..Len(query_items) |->
                          AndQuery(entity_name, query_items[k], << <<"1">>, <<"2">> >>)],
                      <<>>, max_length),
        HasItem))

ClauseEnds(body) == {i \in 2..Len(body) : body[i - 1] = "]" /\ body[i] = ")"}

ClauseEnd(body, k) ==
    CHOOSE i \in ClauseEnds(body) : Cardinality({j \in ClauseEnds(body) : j < i}) = k - 1

ClausesOf(body) ==
    [k \in 1..Cardinality(ClauseEnds(body)) |->
        SubSeq(body, IF k = 1 THEN 1 ELSE ClauseEnd(body, k - 1) + 3, ClauseEnd(body, k))]

C14_Cursor ==
    /\ [](pc = "call" =>
             /\ Request.offset = obs.served
             /\ obs.served = obs.yielded
             /\ obs.calls = 1 => Request.offset = 0)
    /\ [][/\ Len(emitted') = Len(emitted) => offset' >= offset
          /\ Len(emitted') # Len(emitted) => offset' = 0]_vars

\* a later request of an expression, after a page of several entities
C14_Witness ==
    /\ pc = "call"
    /\ obs.calls >= 2
    /\ Request.offset >= 2

(***************************************************************************)
(* C16: the harvest streams in order and on demand.  Before the first pull *)
(* nothing has been requested; a request goes out only when every entity   *)
(* of the earlier pages of the expression has been yielded; the record     *)
(* being yielded is the next entity of the current page, pages follow in   *)
(* offset order and expressions in build_expr order; one record is handed  *)
(* over per pull, and while the caller holds a record and does not pull,   *)
(* no request is made.                                                     *)
(***************************************************************************)
C16_Streams ==
    /\ [](/\ pc = "created" => (obs = NoObs /\ attempt_number = 0 /\ emitted = <<>>)
          /\ pc = "call" => obs.yielded = obs.served
          /\ pc = "yielded" =>
                 /\ obs.yielded = Request.offset + row_idx
                 /\ row_idx \in 1..fos_data
                 /\ obs.served = Request.offset + fos_data)
    /\ [][/\ obs'.yielded # obs.yielded =>
                 (obs'.yielded = obs.yielded + 1 /\ pc' = "yielded")
             \/ (obs'.yielded = 0 /\ Len(emitted') = Len(emitted) + 1)
          /\ Len(emitted') # Len(emitted) =>
                 /\ Len(emitted') = Len(emitted) + 1
                 /\ SubSeq(emitted', 1, Len(emitted)) = emitted
                 /\ emitted'[Len(emitted')] = NextYield(expr, item_idx).yields[1]
          /\ pc = "yielded" =>
                 (pc' = "rows" /\ obs' = obs /\ attempt_number' = attempt_number)
          /\ (obs'.calls # obs.calls \/ attempt_number' > attempt_number) =>
                 pc \in {"next", "call", "rows"}]_vars

\* the caller holds the second record of the second page of an expression
C16_Witness ==
    /\ pc = "yielded"
    /\ obs.pages = 2
    /\ row_idx = 2
    /\ Request.offset > 0

(***************************************************************************)
(* C15: transient failures are invisible.  A failed attempt that is not    *)
(* the last allowed one changes nothing but the attempt count and the      *)
(* failure remembered: the same expression, page size and offset are sent  *)
(* again, and nothing is yielded or skipped; an attempt that succeeds      *)
(* has the effect it would have had as the first attempt; so the offset    *)
(* of every request is the number of records yielded for the expression.   *)
(***************************************************************************)
\* everything of the harvest but the retry bookkeeping
Visible ==
    <<buildVars, configVars, pc, error, count, offset, fos_data, row_idx, row, obs, brk>>

C15_Invisible ==
    /\ [](pc = "call" => (Request.offset = obs.yielded /\ obs.calls = obs.pages + 1))
    /\ [][/\ (pc = "call" /\ last_cause' # "" /\ attempt_number' < stop_max_attempt_number
                 /\ attempt_number' = attempt_number + 1)
             => (UNCHANGED Visible /\ Request' = Request)
          /\ (pc = "call" /\ last_cause' = "" /\ attempt_number' = attempt_number + 1)
             => /\ pc' = (IF fos_data' = 0 THEN "next" ELSE "rows")
                /\ obs'.served = obs.served + fos_data'
                /\ obs'.pages = obs.pages + (IF fos_data' = 0 THEN 0 ELSE 1)
                /\ obs'.yielded = obs.yielded
                /\ offset' = offset /\ row_idx' = 0 /\ error' = error]_vars

\* a page arrives at the third attempt of a call that is not the first one
C15_Witness ==
    /\ pc = "rows"
    /\ attempt_number = 3
    /\ fos_data > 0
    /\ obs.calls = 2

(***************************************************************************)
(* C12 as claimed: with results_limit set, once the records yielded over   *)
(* the whole harvest reach results_limit no further request is issued, and *)
(* the total yielded stays below results_limit plus one page (a page holds *)
(* at most MaxPage entities here).  Stated for limits of 1 and more.       *)
(***************************************************************************)
C12_HarvestLimit ==
    (results_limit # None /\ ValueOf(results_limit) >= 1) =>
        /\ pc = "call" => obs.total < ValueOf(results_limit)
        /\ obs.total < ValueOf(results_limit) + MaxPage

(***************************************************************************)
(* C18 as claimed: the harvest ends, and with results_limit set an         *)
(* expression is left after at most results_limit non-empty pages.         *)
(***************************************************************************)
Finished == pc \in {"done", "raised"}

C18_Original ==
    /\ <>Finished
    /\ [](results_limit # None => obs.pages <= ValueOf(results_limit))

(***************************************************************************)
(* C18 as the code has it: when the caller keeps pulling and every call    *)
(* comes to an outcome, the harvest ends, given that the service answers   *)
(* each expression with an empty page after at most MaxPages pages or      *)
(* results_limit is set; with results_limit set an expression is left      *)
(* after at most results_limit non-empty pages, or after one such page     *)
(* when results_limit is below 1: the limit is looked at only after a page *)
(* has been yielded.                                                       *)
(***************************************************************************)
C18_Terminates ==
    /\ <>Finished
    /\ [](results_limit # None =>
              obs.pages <= (IF ValueOf(results_limit) < 1 THEN 1 ELSE ValueOf(results_limit)))
    /\ [](results_limit = None => obs.pages <= MaxPages)

\* a harvest that ended on the limit after more pages than the service's
\* content alone would have allowed
C18_Witness ==
    /\ pc = "done"
    /\ brk = "limit"
    /\ obs.pages > MaxPages

(***************************************************************************)
(* C17: the normalization result.  For every raw entity that carries both  *)
(* noise fields the clean-up yields a record without logprob, prob and     *)
(* without any raw code; a descriptive key is there exactly when the raw   *)
(* entity had its code; id, name and level keep the raw value; parent_ids  *)
(* and child_ids are the FId values of the raw objects, same order and     *)
(* number.                                                                 *)
(***************************************************************************)
HasNoise(entity) == {"logprob", "prob"} \subseteq DOMAIN entity

C17_Normalized ==
    (pc \in {"yielded", "raised"} /\ raw # None /\ HasNoise(ValueOf(raw))) =>
        LET entity == ValueOf(raw)
        IN /\ pc = "yielded"
           /\ DOMAIN row \cap RawKeys = {}
           /\ DOMAIN row \subseteq {"id", "name", "level", "parent_ids", "child_ids"}
           /\ \A k \in 1..Len(field_mapping) :
                  field_mapping[k][2] \in DOMAIN row <=> field_mapping[k][1] \in DOMAIN entity
           /\ "id" \in DOMAIN row => row["id"] = entity["Id"]
           /\ "name" \in DOMAIN row => row["name"] = entity["DFN"]
           /\ "level" \in DOMAIN row => row["level"] = entity["FL"]
           /\ "parent_ids" \in DOMAIN row =>
                  /\ Len(row["parent_ids"]) = Len(entity["FP"])
                  /\ \A i \in 1..Len(entity["FP"]) :
                         row["parent_ids"][i] = entity["FP"][i].FId
           /\ "child_ids" \in DOMAIN row =>
                  /\ Len(row["child_ids"]) = Len(entity["FC"])
                  /\ \A i \in 1..Len(entity["FC"]) :
                         row["child_ids"][i] = entity["FC"][i].FId

\* the entity of the claim's example, cleaned up: two parents, 7 then 9
C17_Witness ==
    /\ pc = "yielded"
    /\ raw # None
    /\ DOMAIN ValueOf(raw) = RawKeys
    /\ ValueOf(raw)["FP"] = << [FId |-> 7], [FId |-> 9] >>
    /\ row["parent_ids"] = <<7, 9>>
    /\ Len(row["child_ids"]) = 3

(***************************************************************************)
(* C13 as claimed: parse_fos returns first the field-of-study rows (id,    *)
(* name, norm_name), second the paper/field-of-study link rows             *)
(* (field_of_study_id, paper_id), one row each per entry of F, in order.   *)
(***************************************************************************)
C13_ReturnOrder ==
    ppc = "parse_fos" =>
        LET F == ValueOf(response).F
            ret == ValueOf(parsed)
        IN /\ Len(ret) = 2
           /\ Len(ret[1]) = Len(F) /\ Len(ret[2]) = Len(F)
           /\ \A k \in 1..Len(F) :
                  /\ DOMAIN ret[1][k] = {"id", "name", "norm_name"}
                  /\ DOMAIN ret[2][k] = {"field_of_study_id", "paper_id"}
                  /\ ret[1][k].id = F[k].FId
                  /\ ret[1][k].name = F[k].DFN
                  /\ ret[1][k].norm_name = F[k].FN
                  /\ ret[2][k].field_of_study_id = F[k].FId
                  /\ ret[2][k].paper_id = paper_id

(***************************************************************************)
(* C20 as claimed: parse_affiliations raises nothing and emits one link    *)
(* row per entry of AA, in order: with affiliation_id None and no          *)
(* affiliation row when the entry's AfId is absent or empty, otherwise     *)
(* with the AfId and one affiliation row (id, affiliation).                *)
(***************************************************************************)
C20_LinkRows ==
    ppc \in {"parse_affiliations", "raised"} =>
        /\ ppc = "parse_affiliations"
        /\ LET AA == ValueOf(response).AA
               affiliations == ValueOf(parsed)[1]
               paper_author_aff == ValueOf(parsed)[2]
               affiliated == SelectSeq(AA, LAMBDA aff : HasAfId(aff) /\ Truthy(aff.AfId))
           IN /\ Len(paper_author_aff) = Len(AA)
              /\ \A k \in 1..Len(AA) :
                     /\ paper_author_aff[k].author_id = AA[k].AuId
                     /\ paper_author_aff[k].paper_id = paper_id
                     /\ paper_author_aff[k].affiliation_id =
                            (IF HasAfId(AA[k]) /\ Truthy(AA[k].AfId)
                             THEN Some(AA[k].AfId) ELSE None)
              /\ affiliations = [k \in 1..Len(affiliated) |->
                                    [id |-> affiliated[k].AfId,
                                     affiliation |-> affiliated[k].AfN]]

====
